---- MODULE Spec2Model ----
(***************************************************************************)
(* filtop: a terminal dashboard that polls a Filebeat agent's /stats and   *)
(* /inputs endpoints (dataWorker, the Poller goroutine) and renders the    *)
(* last snapshot in tview widgets (updateUI, run on the UI goroutine).     *)
(* Source: src/filtop/filtop.go.                                           *)
(***************************************************************************)
EXTENDS Integers, Sequences, FiniteSets, TLC

(***************************************************************************)
(* float64 arithmetic.  The code computes its percentages in float64 and   *)
(* then truncates or formats the rounded results, so the roundings are     *)
(* part of what it displays.  A non-negative float64 is modelled exactly:  *)
(* a finite value is m * 2^e, m a natural number of exactly MantBits bits  *)
(* written in limbs of base Base, most significant first (<<>> is zero);   *)
(* NaN and +Inf are the two other values the code can produce.  Every      *)
(* operation rounds to nearest, ties to even, as IEEE 754 and Go do.       *)
(* Multipliers and divisors are naturals below Base; a uint64 counter that *)
(* can be larger is a limb string itself, and an int64 is a sign and a     *)
(* limb string.                                                            *)
(***************************************************************************)
MantBits == 53
Base == 2 ^ 15

FNaN == [cls |-> "NaN"]
FInf == [cls |-> "+Inf"]
FZero == [cls |-> "finite", m |-> <<>>, e |-> 0]

RECURSIVE Pow10(_)
Pow10(n) == IF n = 0 THEN 1 ELSE 10 * Pow10(n - 1)

RECURSIVE NatBits(_)
\* the number of binary digits of the natural n
NatBits(n) == IF n = 0 THEN 0 ELSE 1 + NatBits(n \div 2)

\* the binary digits of a limb
LimbBits == NatBits(Base) - 1

RECURSIVE BStrip(_)
\* a limb string without its leading zero limbs
BStrip(a) == IF a # <<>> /\ a[1] = 0 THEN BStrip(Tail(a)) ELSE a

RECURSIVE BFromNat(_)
BFromNat(n) == IF n = 0 THEN <<>> ELSE Append(BFromNat(n \div Base), n % Base)

RECURSIVE BToNat(_)
BToNat(a) ==
  IF a = <<>> THEN 0 ELSE Base * BToNat(SubSeq(a, 1, Len(a) - 1)) + a[Len(a)]

BBits(a) == IF a = <<>> THEN 0 ELSE LimbBits * (Len(a) - 1) + NatBits(a[1])

BOdd(a) == a # <<>> /\ a[Len(a)] % 2 = 1

RECURSIVE BLexLeq(_, _)
\* a <= b for limb strings of one length
BLexLeq(a, b) ==
  IF a = <<>> THEN TRUE
  ELSE IF a[1] # b[1] THEN a[1] < b[1]
  ELSE BLexLeq(Tail(a), Tail(b))

\* a <= b
BLeq(a, b) ==
  LET x == BStrip(a)
      y == BStrip(b)
  IN  IF Len(x) # Len(y) THEN Len(x) < Len(y) ELSE BLexLeq(x, y)

RECURSIVE BMulCarry(_, _, _)
\* a * k + carry
BMulCarry(a, k, carry) ==
  IF a = <<>> THEN BFromNat(carry)
  ELSE LET d == a[Len(a)] * k + carry
       IN  Append(BMulCarry(SubSeq(a, 1, Len(a) - 1), k, d \div Base), d % Base)

BMul(a, k) == BStrip(BMulCarry(a, k, 0))

RECURSIVE BDivRem(_, _, _, _)
\* long division of a by k: r the remainder so far, q the quotient so far
BDivRem(a, k, r, q) ==
  IF a = <<>> THEN [q |-> BStrip(q), r |-> r]
  ELSE LET n == r * Base + a[1]
       IN  BDivRem(Tail(a), k, n % k, Append(q, n \div k))

BDiv(a, k) == BDivRem(a, k, 0, <<>>)

\* a * 2^s
BShiftLeft(a, s) ==
  BMul(a, 2 ^ (s % LimbBits)) \o [i \in 1..(s \div LimbBits) |-> 0]

\* a \div 2^s, and whether the bits shifted out held a one
BShiftRight(a, s) ==
  LET w == s \div LimbBits
  IN  IF w >= Len(a) THEN [q |-> <<>>, sticky |-> a # <<>>]
      ELSE LET d == BDiv(SubSeq(a, 1, Len(a) - w), 2 ^ (s % LimbBits))
               low == SubSeq(a, Len(a) - w + 1, Len(a))
           IN  [q |-> d.q,
                sticky |-> d.r # 0 \/ \E i \in 1..Len(low) : low[i] # 0]

\* a / 2^s (plus a nonzero rest below a's last bit when sticky) rounded to
\* an integer, to nearest, ties to even; s >= 1
BRoundShift(a, s, sticky) ==
  LET h    == BShiftRight(a, s - 1)
      keep == BDiv(h.q, 2)
      up   == keep.r = 1 /\ (h.sticky \/ sticky \/ BOdd(keep.q))
  IN  IF up THEN BStrip(BMulCarry(keep.q, 1, 1)) ELSE keep.q

\* the float64 nearest to a * 2^e (plus a nonzero rest below a's last bit
\* when sticky; a then has more than MantBits bits)
Round(a, e, sticky) ==
  LET n == BBits(a)
  IN  IF n = 0 THEN FZero
      ELSE IF n <= MantBits
      THEN [cls |-> "finite", m |-> BShiftLeft(a, MantBits - n),
            e |-> e - (MantBits - n)]
      ELSE LET r == BRoundShift(a, n - MantBits, sticky)
           IN  IF BBits(r) > MantBits
               THEN [cls |-> "finite", m |-> BDiv(r, 2).q, e |-> e + n - MantBits + 1]
               ELSE [cls |-> "finite", m |-> r, e |-> e + n - MantBits]

\* float64(n) of the uint64 n given in limbs: exact below 2^53, the nearest
\* float64 above
FromU64(a) == Round(BStrip(a), 0, FALSE)

\* float64(n) of an unsigned integer n
FromNat(n) == FromU64(BFromNat(n))

\* a * float64(k), k a natural that float64 holds exactly
FMulNat(a, k) ==
  IF a.cls # "finite" THEN a ELSE Round(BMul(a.m, k), a.e, FALSE)

\* a / float64(k), k a natural that float64 holds exactly: the quotient is
\* taken to more than MantBits + 1 bits before it is rounded
FDivNat(a, k) ==
  IF a.cls # "finite" THEN a
  ELSE IF k = 0 THEN (IF a.m = <<>> THEN FNaN ELSE FInf)
  ELSE LET s == NatBits(k) + 2
           d == BDiv(BShiftLeft(a.m, s), k)
       IN  Round(d.q, a.e - s, d.r # 0)

\* the int64 n >= 0
IntOf(n) == [neg |-> FALSE, mag |-> BFromNat(n)]

\* the least int64, -2^63
MinInt64 == [neg |-> TRUE, mag |-> BShiftLeft(<<1>>, 63)]

\* Go's int(x) of a non-negative float64 as the amd64 build converts it
\* (CVTTSD2SQ): the value truncated when it is below 2^63, and the least
\* int64 for a larger value, +Inf and NaN
FTrunc(a) ==
  IF a.cls # "finite" THEN MinInt64
  ELSE LET t == IF a.e >= 0 THEN BStrip(BShiftLeft(a.m, a.e))
                ELSE BShiftRight(a.m, -a.e).q
       IN  IF BBits(t) > 63 THEN MinInt64 ELSE [neg |-> FALSE, mag |-> t]

RECURSIVE BDecimal(_)
\* the decimal digits of the limb string a, none for zero
BDecimal(a) ==
  IF a = <<>> THEN ""
  ELSE LET d == BDiv(a, 10) IN BDecimal(d.q) \o ToString(d.r)

\* fmt's %d of the uint64 a
FmtU64(a) == IF BStrip(a) = <<>> THEN "0" ELSE BDecimal(BStrip(a))

RECURSIVE Digits(_, _)
\* n in decimal, left-padded with zeros to d digits
Digits(n, d) == IF d = 0 THEN "" ELSE Digits(n \div 10, d - 1) \o ToString(n % 10)

\* fmt.Sprintf("%.<d>f", a), d >= 1: the exact value rounded to d decimals,
\* to nearest, ties to even
FmtFixed(a, d) ==
  IF a.cls # "finite" THEN a.cls
  ELSE LET p == BMul(a.m, Pow10(d))
           t == IF a.e >= 0 THEN BToNat(BShiftLeft(p, a.e))
                ELSE BToNat(BRoundShift(p, -a.e, FALSE))
       IN  ToString(t \div Pow10(d)) \o "." \o Digits(t % Pow10(d), d)

(***************************************************************************)
(* Bounds of the model.                                                    *)
(***************************************************************************)
\* poll cycles of the Poller in the specification of the whole program
MaxCycles == 2
\* poll cycles past a full history buffer in the history specification
MaxOver == 2
\* the longest inputs list the agent reports
MaxInputs == 2
\* the largest counter value (ms of CPU, ms of uptime, queue events) drawn
MaxCount == 24

(***************************************************************************)
(* Program constants and build.                                            *)
(***************************************************************************)
historySize == 30
StatusOK == 200

\* The build's Go version, times 100: the workflow sets go-version '1.20'.
\* Before Go 1.22 a for-range loop has ONE variable for all its iterations.
GoVersion == 120
LoopVarPerIteration == GoVersion >= 122

(***************************************************************************)
(* Pure helpers of the program.                                            *)
(***************************************************************************)
RECURSIVE formatBytesLoop(_, _, _)
\* the loop of formatBytes: n the quotient so far, v = float64(bytes)
\* divided by div so far (div a power of 1024, so exact), exp the unit
formatBytesLoop(n, v, exp) ==
  IF n >= 1024 THEN formatBytesLoop(n \div 1024, FDivNat(v, 1024), exp + 1)
  ELSE FmtFixed(v, 1) \o " " \o <<"K", "M", "G", "T", "P", "E">>[exp + 1] \o "iB"

formatBytes(bytes) ==
  IF bytes < 1024 THEN ToString(bytes) \o " B"
  ELSE formatBytesLoop(bytes \div 1024, FDivNat(FromNat(bytes), 1024), 0)

\* formatHistogram writes one line per float64 entry of the map, in the
\* map's iteration order, which Go leaves unspecified: the lines are a set
formatHistogram(histo) ==
  {<<k, FmtFixed(FromNat(histo[k]), 2)>> : k \in DOMAIN histo}

\* fmt.Sprintf("%t", b)
FmtBool(b) == IF b THEN "true" ELSE "false"

\* fmt.Sprintf("%v", d.Truncate(time.Minute)) of a time.Duration of ms
\* milliseconds: Duration.String of whole minutes
DurationString(ms) ==
  LET mins == ms \div 60000
      h    == mins \div 60
      m    == mins % 60
  IN  IF mins = 0 THEN "0s"
      ELSE IF h = 0 THEN ToString(m) \o "m0s"
      ELSE ToString(h) \o "h" \o ToString(m) \o "m0s"

(***************************************************************************)
(* What the agent answers.  An Input is one element of the /inputs array,  *)
(* a stats payload the decoded body of /stats; a numeric field the body    *)
(* leaves out decodes to zero.                                             *)
(***************************************************************************)
InputTypes == <<"log", "udp", "tcp", "journald", "filestream">>

\* input number i as the agent reports it at its c-th answer: the counters
\* grow from one answer to the next
ServerInput(i, c) ==
  [ID |-> "input-" \o ToString(i),
   Type |-> InputTypes[((i - 1) % Len(InputTypes)) + 1],
   Device |-> "dev" \o ToString(i),
   Packets |-> 100 * i + c,
   Bytes |-> 1024 * i + 512 * c,
   Events |-> 10 * c + i,
   Active |-> i % 2 = 1,
   Files |-> i,
   ThroughputBytes |-> 3 * i + c,
   ArrivalHistogram |-> [mean |-> i, max |-> i + c],
   ProcessingHistogram |-> [mean |-> 2 * i]]

\* an /inputs body of n inputs
InputsBody(n, c) == [i \in 1..n |-> ServerInput(i, c)]

\* an input that only a /stats body carries, under filebeat.inputs
StatsInput ==
  [ID |-> "stats-input", Type |-> "stdin", Device |-> "tty",
   Packets |-> 1, Bytes |-> 1, Events |-> 1, Active |-> FALSE, Files |-> 0,
   ThroughputBytes |-> 0,
   ArrivalHistogram |-> [mean |-> 0], ProcessingHistogram |-> [mean |-> 0]]

Module(name, enabled, errors) ==
  [Name |-> name, Enabled |-> enabled, Errors |-> errors]

\* a decoded /stats body: type FilebeatStats, the fields the program reads
StatsBody(totalMs, uptimeMs, filled, maxEvents, inputs) ==
  [TotalMs |-> totalMs, UptimeMs |-> uptimeMs, RSS |-> 3 * 1024 * 1024,
   Filled |-> filled, MaxEvents |-> maxEvents,
   Running |-> 3, Open |-> 7,
   Inputs |-> inputs,
   Modules |-> <<Module("nginx", TRUE, 0), Module("system", FALSE, 2)>>,
   Load1 |-> 1, Load5 |-> 2, Load15 |-> 3]

\* the zero value of FilebeatStats: what the body {} decodes to
ZeroStats ==
  [TotalMs |-> 0, UptimeMs |-> 0, RSS |-> 0, Filled |-> <<>>, MaxEvents |-> 0,
   Running |-> 0, Open |-> 0, Inputs |-> <<>>, Modules |-> <<>>,
   Load1 |-> 0, Load5 |-> 0, Load15 |-> 0]

\* An HTTP exchange: a transport error (refused, timed out), or a status and
\* a body; json tells whether the body decodes into the expected type, and
\* body is then the decoded value.
Reply(status, json, body) ==
  [err |-> FALSE, status |-> status, json |-> json, body |-> body]
\* the exchanges that fail: no answer, a non-200 status (whose body, here
\* empty, would decode), malformed JSON
FailedReplies(empty) ==
  {[err |-> TRUE, status |-> 0, json |-> FALSE, body |-> empty],
   Reply(500, TRUE, empty), Reply(StatusOK, FALSE, empty)}
\* how an exchange ended: it failed unless it delivered, with status 200, a
\* body that decodes
Exchange(reply) ==
  IF reply.err \/ reply.status # 200 \/ ~reply.json THEN "failed" ELSE "ok"

\* the /stats answers of the specification of the whole program: an
\* ordinary body, and one that itself carries an inputs list
StatsBodies ==
  {StatsBody(500, 10000, BFromNat(50), 1000, <<>>),
   StatsBody(500, 10000, BFromNat(50), 1000, <<StatsInput>>)}

\* the /stats answers the rendering specification draws its counters from
CounterValues == 0..MaxCount

\* the largest uint64, 2^64 - 1
MaxUint64 == <<15>> \o [i \in 1..4 |-> Base - 1]

\* 10^19, a uint64 above the largest int64
TenTo19 == BMul(BMul(BMul(BFromNat(10 ^ 9), 10 ^ 4), 10 ^ 4), 100)

\* values of queue.filled.events (uint64, in limbs): small counts, 105% and
\* just under 105% of 20000, the last integers that float64 holds exactly,
\* and values whose twentyfold is beyond int64
FilledValues ==
  {BFromNat(n) : n \in CounterValues \cup {50, 20999, 21000}}
  \cup {BShiftRight(MaxUint64, 64 - MantBits).q, BShiftLeft(<<1>>, 62),
        TenTo19, MaxUint64}

\* values of queue.max_events
MaxEventsValues == CounterValues \cup {1000, 20000}

RenderBodies ==
  {StatsBody(t, u, BFromNat(50), 1000, <<>>) : t \in CounterValues \cup {500},
                                               u \in CounterValues \cup {10000}}
  \cup
  {StatsBody(500, 10000, f, m, <<>>) : f \in FilledValues, m \in MaxEventsValues}

(***************************************************************************)
(* State.                                                                  *)
(*                                                                         *)
(* Snapshots live on the heap: an address is the number of the allocation  *)
(* (fetchStats allocates one FilebeatStats per successful call), 0 is nil. *)
(* heap holds the snapshots the code can still read through a pointer it   *)
(* dereferences (stats, lastStats); the code never reads through history,  *)
(* whose entries are kept as addresses.                                    *)
(***************************************************************************)
VARIABLES
  \* the Poller goroutine (dataWorker)
  pc,            \* where dataWorker stands
  stats,         \* its local stats: the snapshot of this cycle, or 0
  attempts,      \* calls of fetchStats so far
  sleeps,        \* calls of time.Sleep(refresh) so far
  inputsGets,    \* GET requests sent to /inputs so far
  nalloc,        \* snapshots allocated so far
  notifications, \* calls of app.QueueUpdateDraw so far
  \* what the agent answered in this cycle, kept to state the properties
  statsReply,    \* the /stats exchange: "none" yet, "failed" or "ok"
  inputsReply,   \* the /inputs exchange
  decodedInputs, \* the Inputs that the /stats body decoded to
  \* the package variables
  lastStats,     \* address of the last known snapshot, 0 for nil
  history,       \* the history buffer: addresses, oldest first
  heap,          \* address -> snapshot
  currentFocus,
  \* tview: the application's update queue and the reply to QueueUpdate
  updates,       \* functions queued by QueueUpdateDraw, not yet run
  done,          \* TRUE once the queued function has run
  \* the UI goroutine (app.Run) and its widgets
  uipc,          \* "idle", inside showInputDetails, or "panicked": a panic
                 \* on the UI goroutine has ended the program
  page,          \* the page in front
  focus,         \* what holds the tview focus: "main" (the main page or one
                 \* of its widgets), "list" or "modal"
  sysPanel, queueView, harvesterView, inputsTable, modulesList,
  detailsList,   \* the list of the input_details page
  currentItem,   \* the current item of that list, counted from 1
  detailsInputs, \* the Inputs slice that list was built from
  metricsModal,  \* the modal of the input_metrics page
  selectedIndex, \* the entry of that list whose function ran last, 0 for none
  displayed,     \* address of the snapshot the last render pass read
  renders,       \* render passes so far
  \* happens-before between the two goroutines on lastStats
  unsyncedWrite, \* the Poller wrote lastStats and nothing orders the UI after it
  unsyncedRead,  \* the UI read lastStats and nothing orders the Poller after it
  race           \* two unordered accesses to lastStats, one a write, have happened

pollerVars == <<pc, stats, attempts, sleeps, inputsGets, nalloc, notifications,
               statsReply, inputsReply, decodedInputs>>
sharedVars == <<lastStats, history, heap>>
tviewVars  == <<updates, done>>
widgetVars == <<sysPanel, queueView, harvesterView, inputsTable, modulesList>>
frontVars  == <<page, focus, detailsList, currentItem, metricsModal, selectedIndex>>
uiVars     == <<uipc, currentFocus, frontVars, detailsInputs, displayed, renders>>
hbVars     == <<unsyncedWrite, unsyncedRead, race>>
vars == <<pollerVars, sharedVars, tviewVars, widgetVars, uiVars, hbVars>>

\* createInputsTable: the header row (row 0 of the tview table)
HeaderRow == <<"Type", "Active", "Events", "Throughput", "Files">>

\* the placeholder of the queue panel
QueuePlaceholder == "[green]0/0 [white]| [gray]...................."

\* main up to app.Run: initUI has built the widgets, dataWorker is started
Init ==
  /\ pc = "fetchStats" /\ stats = 0 /\ attempts = 0 /\ sleeps = 0
  /\ inputsGets = 0 /\ nalloc = 0 /\ notifications = 0
  /\ statsReply = "none" /\ inputsReply = "none" /\ decodedInputs = <<>>
  /\ lastStats = 0 /\ history = <<>> /\ heap = [a \in {} |-> 0]
  /\ currentFocus = 0
  /\ updates = <<>> /\ done = FALSE
  /\ uipc = "idle" /\ page = "main" /\ focus = "main"
  /\ sysPanel = [cpu |-> "0.0%", rss |-> "0.0 MB", uptime |-> "0h 0m",
                 load |-> "0.00 0.00 0.00"]
  /\ queueView = [text |-> QueuePlaceholder, blocks |-> IntOf(0)]
  /\ harvesterView = "Active: 0 | Open Files: 0"
  /\ inputsTable = <<HeaderRow>>
  /\ modulesList = <<"Loading...">>
  /\ detailsList = <<>> /\ currentItem = 0 /\ detailsInputs = <<>>
  /\ metricsModal = <<>> /\ selectedIndex = 0
  /\ displayed = 0 /\ renders = 0
  /\ unsyncedWrite = FALSE /\ unsyncedRead = FALSE /\ race = FALSE

(***************************************************************************)
(* The Poller: dataWorker, one action per step between two accesses to     *)
(* what it shares.                                                         *)
(***************************************************************************)
\* fetchStats without its check of the status code (line 354)
fetchStatsAnyStatus(reply) ==
  IF reply.err THEN [err |-> TRUE, body |-> ZeroStats]
  ELSE IF ~reply.json THEN [err |-> TRUE, body |-> ZeroStats]
  ELSE [err |-> FALSE, body |-> reply.body]

\* fetchStats: the error, or the decoded body
fetchStats(reply) ==
  IF reply.err THEN [err |-> TRUE, body |-> ZeroStats]
  ELSE IF reply.status # StatusOK THEN [err |-> TRUE, body |-> ZeroStats]
  ELSE IF ~reply.json THEN [err |-> TRUE, body |-> ZeroStats]
  ELSE [err |-> FALSE, body |-> reply.body]

\* fetchInputs: the error, or the decoded array
fetchInputs(reply) ==
  IF reply.err THEN [err |-> TRUE, body |-> <<>>]
  ELSE IF reply.status # StatusOK THEN [err |-> TRUE, body |-> <<>>]
  ELSE IF ~reply.json THEN [err |-> TRUE, body |-> <<>>]
  ELSE [err |-> FALSE, body |-> reply.body]

\* the heap without the snapshots no pointer the code reads through holds
Collect(h, live) == [a \in (DOMAIN h) \cap live |-> h[a]]

\* the stats fetch of a Poller that gives up at the first error (log.Fatalf
\* in place of log.Printf at line 323)
StatsFetchedFatal(reply) ==
  LET r == fetchStats(reply)
  IN  /\ statsReply' = Exchange(reply)
      /\ IF r.err
         THEN /\ pc' = "exit"
              /\ stats' = 0
              /\ UNCHANGED <<nalloc, heap, decodedInputs>>
         ELSE /\ pc' = "fetchInputs"
              /\ nalloc' = nalloc + 1
              /\ stats' = nalloc + 1
              /\ heap' = [a \in (DOMAIN heap) \cup {nalloc + 1} |->
                            IF a = nalloc + 1 THEN r.body ELSE heap[a]]
              /\ decodedInputs' = r.body.Inputs

\* lines 321-326: the stats fetch of a cycle, answered by the agent with one
\* of the bodies, or failing; limit bounds the cycles of the model
StatsFetched(reply) ==
  LET r == fetchStats(reply)
  IN  /\ statsReply' = Exchange(reply)
      /\ IF r.err
         THEN /\ pc' = "sleep"
              /\ stats' = 0
              /\ UNCHANGED <<nalloc, heap, decodedInputs>>
         ELSE /\ pc' = "fetchInputs"
              /\ nalloc' = nalloc + 1
              /\ stats' = nalloc + 1
              /\ heap' = [a \in (DOMAIN heap) \cup {nalloc + 1} |->
                            IF a = nalloc + 1 THEN r.body ELSE heap[a]]
              /\ decodedInputs' = r.body.Inputs

FetchStats(bodies, limit) ==
  /\ pc = "fetchStats"
  /\ attempts < limit
  /\ \/ \E reply \in FailedReplies(ZeroStats) : StatsFetched(reply)
     \/ \E b \in bodies : StatsFetched(Reply(StatusOK, TRUE, b))
  /\ attempts' = attempts + 1
  /\ UNCHANGED <<sleeps, inputsGets, notifications, inputsReply, lastStats, history>>
  /\ UNCHANGED <<tviewVars, widgetVars, uiVars, hbVars>>

\* the inputs fetch without the err == nil of line 330: the returned slice,
\* nil on error, always replaces the snapshot's Inputs
InputsFetchedAssignsAlways(reply) ==
  LET r == fetchInputs(reply)
  IN  /\ inputsReply' = Exchange(reply)
      /\ heap' = [heap EXCEPT ![stats].Inputs = r.body]

\* lines 328-333: the inputs fetch; on success the array replaces the
\* snapshot's Inputs, on failure the snapshot is left as decoded
InputsFetched(reply) ==
  LET r == fetchInputs(reply)
  IN  /\ inputsReply' = Exchange(reply)
      /\ heap' = IF r.err THEN heap ELSE [heap EXCEPT ![stats].Inputs = r.body]

\* (counts: the lengths of the inputs lists the agent may report)
FetchInputs(counts) ==
  /\ pc = "fetchInputs"
  /\ \/ \E reply \in FailedReplies(<<>>) : InputsFetched(reply)
     \/ \E n \in counts :
          InputsFetched(Reply(StatusOK, TRUE, InputsBody(n, attempts)))
  /\ inputsGets' = inputsGets + 1
  /\ pc' = "append"
  /\ UNCHANGED <<stats, attempts, sleeps, nalloc, notifications, statsReply,
                 decodedInputs, lastStats, history>>
  /\ UNCHANGED <<tviewVars, widgetVars, uiVars, hbVars>>

\* the append that drops the newest snapshot when over historySize
appendHistoryDropsNewest(h, s) ==
  LET grown == Append(h, s)
  IN  IF Len(grown) > historySize THEN SubSeq(grown, 1, historySize) ELSE grown

\* lines 335-338: append, then drop the oldest when over historySize
appendHistory(h, s) ==
  LET grown == Append(h, s)
  IN  IF Len(grown) > historySize THEN Tail(grown) ELSE grown

AppendHistory ==
  /\ pc = "append"
  /\ history' = appendHistory(history, stats)
  /\ pc' = "publish"
  /\ UNCHANGED <<stats, attempts, sleeps, inputsGets, nalloc, notifications,
                 statsReply, inputsReply, decodedInputs, lastStats, heap>>
  /\ UNCHANGED <<tviewVars, widgetVars, uiVars, hbVars>>

\* line 340: lastStats = stats, a plain write of the package variable
Publish ==
  /\ pc = "publish"
  /\ lastStats' = stats
  /\ heap' = Collect(heap, {stats})
  /\ unsyncedWrite' = TRUE
  /\ race' = (race \/ unsyncedRead)
  /\ pc' = "queueUpdate"
  /\ UNCHANGED <<stats, attempts, sleeps, inputsGets, nalloc, notifications,
                 statsReply, inputsReply, decodedInputs, history, unsyncedRead>>
  /\ UNCHANGED <<tviewVars, widgetVars, uiVars>>

\* line 341, first half: QueueUpdateDraw sends updateUI on the
\* application's update channel
QueueUpdateDraw ==
  /\ pc = "queueUpdate"
  /\ updates' = Append(updates, "updateUI")
  /\ notifications' = notifications + 1
  /\ pc' = "waitDone"
  /\ UNCHANGED <<stats, attempts, sleeps, inputsGets, nalloc, statsReply, inputsReply,
                 decodedInputs>>
  /\ UNCHANGED <<sharedVars, done, widgetVars, uiVars, hbVars>>

\* a QueueUpdateDraw that returns without waiting for the function to run
UpdateDoneNoWait ==
  /\ pc = "waitDone"
  /\ done' = FALSE
  /\ stats' = 0
  /\ pc' = "sleep"
  /\ UNCHANGED <<attempts, sleeps, inputsGets, nalloc, notifications, statsReply,
                 inputsReply, decodedInputs, updates>>
  /\ UNCHANGED <<sharedVars, widgetVars, uiVars, hbVars>>

\* line 341, second half: QueueUpdate returns after the function has run
\* on the UI goroutine
UpdateDone ==
  /\ pc = "waitDone"
  /\ done
  /\ done' = FALSE
  /\ stats' = 0
  /\ pc' = "sleep"
  /\ UNCHANGED <<attempts, sleeps, inputsGets, nalloc, notifications, statsReply,
                 inputsReply, decodedInputs, updates>>
  /\ UNCHANGED <<sharedVars, widgetVars, uiVars, hbVars>>

\* lines 324 and 342: time.Sleep(refresh), then the next cycle
Sleep ==
  /\ pc = "sleep"
  /\ sleeps' = sleeps + 1
  /\ pc' = "fetchStats"
  /\ statsReply' = "none" /\ inputsReply' = "none" /\ decodedInputs' = <<>>
  /\ UNCHANGED <<stats, attempts, inputsGets, nalloc, notifications>>
  /\ UNCHANGED <<sharedVars, tviewVars, widgetVars, uiVars, hbVars>>

(***************************************************************************)
(* The renderer: updateUI and the five widget updates, run by the UI       *)
(* goroutine when it takes the queued function.                            *)
(***************************************************************************)
\* line 445: float64(totalMs) / float64(uptime.ms) * 100
cpuPercent(s) == FMulNat(FDivNat(FromNat(s.TotalMs), s.UptimeMs), 100)

\* lines 438-465
updateSystemMetrics(s) ==
  [cpu    |-> FmtFixed(cpuPercent(s), 1) \o "%",
   rss    |-> FmtFixed(FDivNat(FDivNat(FromNat(s.RSS), 1024), 1024), 1) \o " MB",
   uptime |-> DurationString(s.UptimeMs),
   load   |-> FmtFixed(FromNat(s.Load1), 2) \o " " \o FmtFixed(FromNat(s.Load5), 2)
              \o " " \o FmtFixed(FromNat(s.Load15), 2)]

\* lines 488-491
queuePercent(s) ==
  IF s.MaxEvents > 0
  THEN FMulNat(FDivNat(FromU64(s.Filled), s.MaxEvents), 100)
  ELSE FZero

\* the bar clamped to its 20 blocks of 100%
queueBarsClamped(percent) ==
  LET bars == FTrunc(FDivNat(percent, 5))
  IN  IF bars.neg THEN IntOf(0)
      ELSE IF ~BLeq(bars.mag, BFromNat(20)) THEN IntOf(20) ELSE bars

\* lines 493-496: int(percent / 5), not below 0
queueBars(percent) ==
  LET bars == FTrunc(FDivNat(percent, 5))
  IN  IF bars.neg THEN IntOf(0) ELSE bars

\* the memory that the process can still get for one string, in bytes:
\* between 1 GiB and 16 TiB, which is less than the runtime allows for one
\* allocation on amd64 (2^48 bytes)
LeastMemory == BShiftLeft(<<1>>, 30)
MostMemory == BShiftLeft(<<1>>, 44)
MemoryValues == {LeastMemory, MostMemory}

\* the bytes of the block character U+2588 in UTF-8
BlockBytes == Len(<<226, 150, 136>>)

\* strings.Repeat of the block character, count >= 0 times, with free bytes
\* to get: it panics when the length in bytes does not fit an int, and the
\* allocation fails when the length is more than the process can get; both
\* end the program
repeatFails(count, free) ==
  LET n == BMul(count.mag, BlockBytes)
  IN  BBits(n) > 63 \/ ~BLeq(n, free)

\* lines 481-505: the view is cleared, and then holds the text before the
\* bar and the block characters (blocks, their number) that strings.Repeat
\* puts after it, unless strings.Repeat fails: the view is left cleared
updateQueue(s, free) ==
  LET bars == queueBars(queuePercent(s))
  IN  IF repeatFails(bars, free)
      THEN [text |-> "", blocks |-> IntOf(0), panic |-> TRUE]
      ELSE [text |-> "[green]" \o FmtU64(s.Filled) \o "/" \o ToString(s.MaxEvents)
                     \o " [white]| ",
            blocks |-> bars, panic |-> FALSE]

\* lines 467-480
updateHarvesters(s) ==
  "Active: " \o ToString(s.Running) \o " | Open Files: " \o ToString(s.Open)

\* tview Table.RemoveRow: rows are numbered from 0, the header is row 0
RemoveRow(rows, row) ==
  IF row < 0 \/ row >= Len(rows) THEN rows
  ELSE SubSeq(rows, 1, row) \o SubSeq(rows, row + 2, Len(rows))

RECURSIVE clearRows(_, _)
\* lines 514-516: for row := 1; row < table.GetRowCount(); row++ { RemoveRow(row) }
clearRows(rows, row) ==
  IF row < Len(rows) THEN clearRows(RemoveRow(rows, row), row + 1) ELSE rows

\* lines 521-525: the five cells of an input's row
inputRow(input) ==
  <<input.Type, FmtBool(input.Active), ToString(input.Events),
    FmtFixed(FromNat(input.ThroughputBytes), 2), ToString(input.Files)>>

\* tview Table.SetCell on the five columns of row i: the row is replaced,
\* or the table grows to hold it
SetRow(rows, i, cells) ==
  [r \in 1..(IF i + 1 > Len(rows) THEN i + 1 ELSE Len(rows)) |->
     IF r = i + 1 THEN cells ELSE IF r <= Len(rows) THEN rows[r] ELSE <<>>]

RECURSIVE setRows(_, _, _)
\* lines 520-526: row i+1 for the i-th input, in list order
setRows(rows, inputs, i) ==
  IF i >= Len(inputs) THEN rows
  ELSE setRows(SetRow(rows, i + 1, inputRow(inputs[i + 1])), inputs, i + 1)

\* lines 507-531
updateInputs(rows, s) == setRows(clearRows(rows, 1), s.Inputs, 0)

\* the glyphs U+2713 and U+2717 of the modules list
CheckGlyph == "(check)"
CrossGlyph == "(cross)"

\* lines 533-550
updateModules(s) ==
  [i \in 1..Len(s.Modules) |->
     LET module == s.Modules[i]
         status == IF module.Enabled THEN "[green]" \o CheckGlyph
                   ELSE "[red]" \o CrossGlyph
     IN  status \o " " \o module.Name \o " (" \o ToString(module.Errors) \o " errors)"]

\* lines 385-394, run by the UI goroutine as the function QueueUpdateDraw
\* queued; the Poller waits in QueueUpdate meanwhile, so lastStats does not
\* change under it.  Receiving from the update channel orders the UI after
\* the Poller's write; the reply orders the Poller after the UI's reads.
\* When strings.Repeat fails in updateQueue the pass ends there: the three
\* updates after it do not run, QueueUpdate never returns to the Poller,
\* and no step follows.
UpdateUI ==
  /\ uipc = "idle"
  /\ updates # <<>>
  /\ updates' = Tail(updates)
  /\ IF lastStats = 0
     THEN /\ done' = TRUE
          /\ UNCHANGED <<widgetVars, displayed, renders, uipc>>
     ELSE \E free \in MemoryValues :
            LET s == heap[lastStats]
                q == updateQueue(s, free)
            IN  /\ sysPanel' = updateSystemMetrics(s)
                /\ queueView' = [text |-> q.text, blocks |-> q.blocks]
                /\ displayed' = lastStats
                /\ renders' = renders + 1
                /\ IF q.panic
                   THEN /\ uipc' = "panicked"
                        /\ UNCHANGED <<done, harvesterView, inputsTable, modulesList>>
                   ELSE /\ uipc' = "idle"
                        /\ done' = TRUE
                        /\ harvesterView' = updateHarvesters(s)
                        /\ inputsTable' = updateInputs(inputsTable, s)
                        /\ modulesList' = updateModules(s)
  /\ unsyncedWrite' = FALSE
  /\ unsyncedRead' = FALSE
  /\ UNCHANGED <<pollerVars, sharedVars, race>>
  /\ UNCHANGED <<currentFocus, frontVars, detailsInputs>>

(***************************************************************************)
(* The keys.  A key event is handled by the UI goroutine in one pass of    *)
(* the event loop: the input capture of initUI first (lines 197-213), and, *)
(* the capture returning the event, the primitive that holds the focus     *)
(* then.  The mouse is not enabled, so the list and the modal are reached  *)
(* through keys only.                                                      *)
(***************************************************************************)
\* the pages and the focus as the handlers see and change them
Front ==
  [page |-> page, focus |-> focus, list |-> detailsList, item |-> currentItem,
   modal |-> metricsModal, selected |-> selectedIndex]

SetFront(f) ==
  /\ page' = f.page
  /\ focus' = f.focus
  /\ detailsList' = f.list
  /\ currentItem' = f.item
  /\ metricsModal' = f.modal
  /\ selectedIndex' = f.selected

\* tview Pages.SwitchToPage (and AddPage of a visible page): the page comes
\* to the front and, Pages holding the focus, its primitive takes the focus
SwitchToPage(f, name) ==
  [f EXCEPT !.page = name,
            !.focus = IF name = "input_details" THEN "list"
                      ELSE IF name = "input_metrics" THEN "modal" ELSE "main"]

\* the value of the loop variable that the closure made in iteration i of
\* "for _, input := range inputs" reads once the loop has ended
closureInput(inputs, i) ==
  IF LoopVarPerIteration THEN inputs[i] ELSE inputs[Len(inputs)]

\* lines 236-247: one entry per input, its selected function a closure over
\* the loop variable, then the entry that goes back
buildDetailsList(inputs) ==
  [i \in 1..Len(inputs) |->
     [text |-> inputs[i].Type \o " (" \o inputs[i].Device \o ")",
      shortcut |-> "",
      selected |-> "showInputMetrics",
      input |-> closureInput(inputs, i)]]
  \o <<[text |-> "Regresar", shortcut |-> "b", selected |-> "SwitchToPage(main)"]>>

\* lines 257-271: the text of the modal.  The input's ID is only the title
\* of the text view of lines 254-255, which is on no page.
showInputMetrics(input) ==
  [Tipo |-> input.Type,
   Dispositivo |-> input.Device,
   Paquetes |-> ToString(input.Packets),
   Bytes |-> formatBytes(input.Bytes),
   Eventos |-> ToString(input.Events),
   Activo |-> FmtBool(input.Active),
   ArrivalPeriod |-> formatHistogram(input.ArrivalHistogram),
   ProcessingTime |-> formatHistogram(input.ProcessingHistogram)]

\* tview calls the selected function of entry i of the list: lines 240-242
\* and 253-278 for an input, lines 245-247 for the entry that goes back
selectItem(f, i) ==
  IF f.list[i].selected = "showInputMetrics"
  THEN [SwitchToPage(f, "input_metrics") EXCEPT
          !.modal = showInputMetrics(f.list[i].input), !.selected = i]
  ELSE SwitchToPage(f, "main")

\* Enter as the primitive in focus takes it: the list calls the selected
\* function of its current item, the modal's button calls the done function
\* of lines 273-275, the widgets of the main page do nothing
forwardEnter(f) ==
  IF f.focus = "list" THEN selectItem(f, f.item)
  ELSE IF f.focus = "modal" THEN SwitchToPage(f, "input_details")
  ELSE f

\* a rune as the primitive in focus takes it: for the space bar the list
\* calls the selected function of its current item, as for Enter; for
\* another rune it looks for an entry with that shortcut, makes it current
\* and calls its selected function
forwardRune(f, ch) ==
  LET found == {i \in 1..Len(f.list) : f.list[i].shortcut = ch}
  IN  IF f.focus # "list" THEN f
      ELSE IF ch = " " THEN selectItem(f, f.item)
      ELSE IF found # {}
      THEN LET i == CHOOSE j \in found : \A k \in found : j <= k
           IN  selectItem([f EXCEPT !.item = i], i)
      ELSE f

\* Down and Up as the list in focus takes them: the current item moves by
\* one, around the ends
forwardMove(f, by) ==
  IF f.focus = "list"
  THEN [f EXCEPT !.item = ((f.item - 1 + by + Len(f.list)) % Len(f.list)) + 1]
  ELSE f

\* lines 201-203: Tab moves currentFocus and gives the focus to a widget of
\* the main page, whatever page is in front
KeyTab ==
  /\ uipc = "idle"
  /\ currentFocus' = (currentFocus + 1) % 2
  /\ focus' = "main"
  /\ UNCHANGED <<pollerVars, sharedVars, tviewVars, widgetVars, hbVars>>
  /\ UNCHANGED <<uipc, page, detailsList, currentItem, metricsModal, selectedIndex,
                 detailsInputs, displayed, renders>>

\* lines 204-206
KeyBacktab ==
  /\ uipc = "idle"
  /\ currentFocus' = (currentFocus - 1 + 2) % 2
  /\ focus' = "main"
  /\ UNCHANGED <<pollerVars, sharedVars, tviewVars, widgetVars, hbVars>>
  /\ UNCHANGED <<uipc, page, detailsList, currentItem, metricsModal, selectedIndex,
                 detailsInputs, displayed, renders>>

\* lines 199-200: the main page comes to the front and takes the focus
KeyEsc ==
  /\ uipc = "idle"
  /\ SetFront(SwitchToPage(Front, "main"))
  /\ UNCHANGED <<pollerVars, sharedVars, tviewVars, widgetVars, hbVars>>
  /\ UNCHANGED <<uipc, currentFocus, detailsInputs, displayed, renders>>

\* lines 207-210 and 232-234: with currentFocus 1 the capture calls
\* showInputDetails, which reads lastStats with nothing ordering the read
\* and the Poller's write; when there is nothing to list it returns, and,
\* as with currentFocus 0, Enter goes on to the primitive in focus
KeyEnter ==
  /\ uipc = "idle"
  /\ IF currentFocus = 1
     THEN /\ unsyncedRead' = TRUE
          /\ race' = (race \/ unsyncedWrite)
          /\ IF lastStats = 0 \/ Len(heap[lastStats].Inputs) = 0
             THEN uipc' = "idle" /\ SetFront(forwardEnter(Front))
             ELSE uipc' = "showInputDetails" /\ UNCHANGED frontVars
     ELSE /\ UNCHANGED <<unsyncedRead, race, uipc>>
          /\ SetFront(forwardEnter(Front))
  /\ UNCHANGED <<pollerVars, sharedVars, tviewVars, widgetVars, unsyncedWrite>>
  /\ UNCHANGED <<currentFocus, detailsInputs, displayed, renders>>

\* lines 236-250, the rest of showInputDetails: it reads lastStats again,
\* builds a new list with its first item current, and puts it in front and
\* in focus; the capture returns and Enter goes on to that list
ShowInputDetails ==
  /\ uipc = "showInputDetails"
  /\ LET inputs == heap[lastStats].Inputs
         built  == [SwitchToPage(Front, "input_details") EXCEPT
                      !.list = buildDetailsList(inputs), !.item = 1, !.selected = 0]
     IN  /\ detailsInputs' = inputs
         /\ SetFront(forwardEnter(built))
  /\ uipc' = "idle"
  /\ unsyncedRead' = TRUE
  /\ race' = (race \/ unsyncedWrite)
  /\ UNCHANGED <<pollerVars, sharedVars, tviewVars, widgetVars, unsyncedWrite>>
  /\ UNCHANGED <<currentFocus, displayed, renders>>

\* Down or Up: the capture has no case for them (lines 198-211)
KeyMove ==
  /\ uipc = "idle"
  /\ \E by \in {1, -1} : SetFront(forwardMove(Front, by))
  /\ UNCHANGED <<pollerVars, sharedVars, tviewVars, widgetVars, hbVars>>
  /\ UNCHANGED <<uipc, currentFocus, detailsInputs, displayed, renders>>

\* a rune: the capture has no case for it (lines 198-211) and returns it to
\* the primitive in focus; b is the shortcut of the entry that goes back
\* (line 245), the space bar selects, x is no shortcut
KeyRune ==
  /\ uipc = "idle"
  /\ \E ch \in {"b", " ", "x"} : SetFront(forwardRune(Front, ch))
  /\ UNCHANGED <<pollerVars, sharedVars, tviewVars, widgetVars, hbVars>>
  /\ UNCHANGED <<uipc, currentFocus, detailsInputs, displayed, renders>>

(***************************************************************************)
(* Specifications.                                                         *)
(***************************************************************************)
Poller(bodies, counts, limit) ==
  \/ FetchStats(bodies, limit)
  \/ FetchInputs(counts)
  \/ AppendHistory
  \/ Publish
  \/ QueueUpdateDraw
  \/ UpdateDone
  \/ Sleep

Keys ==
  \/ KeyTab
  \/ KeyBacktab
  \/ KeyEsc
  \/ KeyEnter
  \/ ShowInputDetails
  \/ KeyMove
  \/ KeyRune

\* the whole program: the Poller, the renderer and the keys
Next == Poller(StatsBodies, 0..MaxInputs, MaxCycles) \/ UpdateUI \/ Keys
Spec == Init /\ [][Next]_vars

\* the Poller and the renderer over enough cycles to overflow the history
NextHistory ==
  \/ Poller({StatsBody(500, 10000, BFromNat(50), 1000, <<>>)}, {1},
            historySize + MaxOver)
  \/ UpdateUI
SpecHistory == Init /\ [][NextHistory]_vars

\* one cycle of the Poller and the renderer on every counter value
NextRender == Poller(RenderBodies, {MaxInputs}, 1) \/ UpdateUI
SpecRender == Init /\ [][NextRender]_vars

\* the Poller and the renderer under the scheduling the runtime gives them:
\* a goroutine that can take a step takes it (an HTTP exchange ends within
\* the client's timeout, a sleep ends), and the event loop takes the updates
\* queued to it, so that its queue is empty again and again
NextLive == Poller(StatsBodies, 0..MaxInputs, MaxCycles + 1) \/ UpdateUI
SpecLive ==
  /\ Init
  /\ [][NextLive]_vars
  /\ WF_vars(Poller(StatsBodies, 0..MaxInputs, MaxCycles + 1))
  /\ []<>(updates = <<>>)

(***************************************************************************)
(* Properties.                                                             *)
(***************************************************************************)
\* addresses of the snapshots appended to history so far: every allocated
\* one, but the one of a cycle that has not reached its append
Appended == IF pc \in {"fetchInputs", "append"} THEN nalloc - 1 ELSE nalloc

\* C1: whatever cycles succeeded or failed, history holds at most 30
\* snapshots, and they are the newest ones in fetch order, newest last: a
\* snapshot appended to a full buffer pushed out exactly the oldest.
C1_HistoryIsNewestThirty ==
  LET n == IF Appended < historySize THEN Appended ELSE historySize
  IN  /\ Len(history) <= historySize
      /\ history = [i \in 1..n |-> Appended - n + i]

\* a full buffer that has evicted, with failed cycles among the successful
C1_Witness ==
  /\ Len(history) = historySize
  /\ history[1] = 2
  /\ attempts > nalloc

\* C2: a cycle whose stats fetch fails goes straight to its sleep and then to
\* the next fetch, and neither step changes the last known snapshot (the
\* reference or the snapshot), the history, the requests sent to /inputs or
\* the notifications queued.
C2_FailedStatsFetchChangesNothing ==
  [][((pc = "fetchStats" /\ statsReply' = "failed")
        \/ (pc = "sleep" /\ statsReply = "failed" /\ pc' # pc))
     => /\ pc' = (IF pc = "fetchStats" THEN "sleep" ELSE "fetchStats")
        /\ lastStats' = lastStats
        /\ heap' = heap
        /\ history' = history
        /\ inputsGets' = inputsGets
        /\ notifications' = notifications
        /\ updates' = updates]_vars

\* a failed stats fetch after a published snapshot
C2_Witness ==
  /\ statsReply = "failed"
  /\ pc = "sleep"
  /\ lastStats = 1
  /\ history = <<1>>
  /\ displayed = 1

\* C3: when the stats fetch succeeded and the inputs fetch failed, the cycle
\* goes on: its snapshot is appended to history, becomes the last known one
\* and the renderer is notified, and the snapshot's Inputs are those decoded
\* from the stats body, whatever the snapshots before it held.
C3_FailedInputsFetchStillPublishes ==
  inputsReply = "failed" =>
    /\ pc \in {"append", "publish", "queueUpdate", "waitDone", "sleep"}
    /\ nalloc \in DOMAIN heap
    /\ heap[nalloc].Inputs = decodedInputs
    /\ pc \in {"publish", "queueUpdate", "waitDone", "sleep"}
         => history # <<>> /\ history[Len(history)] = nalloc
    /\ pc \in {"queueUpdate", "waitDone", "sleep"} => lastStats = nalloc
    /\ pc \in {"waitDone", "sleep"} => notifications = nalloc
    /\ pc = "sleep" => displayed = nalloc

\* the second snapshot published and rendered without inputs, after a first
\* one that listed inputs
C3_Witness ==
  /\ inputsReply = "failed"
  /\ pc = "sleep"
  /\ lastStats = 2
  /\ displayed = 2
  /\ heap[2].Inputs = <<>>
  /\ Len(detailsInputs) = MaxInputs

\* C4: lastStats only moves to a snapshot fetched later, and a render pass
\* shows the snapshot fetched last at the moment it runs, which is never
\* older than the one shown before.
C4_RenderShowsNewest ==
  [][/\ lastStats' >= lastStats
     /\ lastStats' # lastStats => lastStats' = nalloc
     /\ renders' # renders => (displayed' = nalloc /\ displayed' >= displayed)]_vars

\* two render passes, the second of the second snapshot
C4_Witness ==
  /\ renders = 2
  /\ displayed = 2
  /\ lastStats = 2

\* the inputs table as a render of the snapshot s must leave it
TableOf(s) ==
  <<HeaderRow>> \o
  [i \in 1..Len(s.Inputs) |->
     <<s.Inputs[i].Type, FmtBool(s.Inputs[i].Active), ToString(s.Inputs[i].Events),
       FmtFixed(FromNat(s.Inputs[i].ThroughputBytes), 2), ToString(s.Inputs[i].Files)>>]

\* C5: after a render the inputs table is the header and one row per Input
\* of the rendered snapshot, in list order, and nothing else.
C5_TableIsRebuilt ==
  (displayed # 0 /\ displayed = lastStats) => inputsTable = TableOf(heap[lastStats])

\* C6: no read of lastStats by the UI goroutine is unordered with a write of
\* it by the Poller.
C6_NoDataRace == ~race

\* C7: the Poller keeps polling: a cycle, failed or not, ends in one sleep
\* after which the stats are fetched again (as long as the bound on attempts
\* allows), the Poller never leaves its loop, and a snapshot whose stats
\* fetch succeeded is published and the renderer notified.
C7_PollerKeepsPolling ==
  /\ \A n \in 1..MaxCycles :
       (pc \in {"sleep", "waitDone"} /\ attempts = n) ~> (attempts = n + 1)
  /\ \A a \in 1..(MaxCycles + 1) :
       (pc = "fetchInputs" /\ nalloc = a) ~> (lastStats = a /\ notifications = a)
  /\ [](pc = "fetchStats" => sleeps = attempts)
  /\ [](pc \in {"fetchStats", "fetchInputs", "append", "publish", "queueUpdate",
                "waitDone", "sleep"})

\* a snapshot published after failed fetches only
C7_Witness ==
  /\ attempts = MaxCycles + 1
  /\ nalloc = 1
  /\ lastStats = 1
  /\ notifications = 1
  /\ statsReply = "ok"
  /\ pc = "sleep"

\* C8: selecting entry i of the details list shows input i of the snapshot
\* the list was built from.
C8_DetailIsOfSelectedInput ==
  selectedIndex # 0 =>
    LET input == detailsInputs[selectedIndex]
    IN  /\ metricsModal.Tipo = input.Type
        /\ metricsModal.Dispositivo = input.Device
        /\ metricsModal.Paquetes = ToString(input.Packets)
        /\ metricsModal.Bytes = formatBytes(input.Bytes)
        /\ metricsModal.Eventos = ToString(input.Events)
        /\ metricsModal.Activo = FmtBool(input.Active)
        /\ metricsModal.ArrivalPeriod = formatHistogram(input.ArrivalHistogram)
        /\ metricsModal.ProcessingTime = formatHistogram(input.ProcessingHistogram)

\* the snapshot on screen, when it is still the last known one
Rendered == displayed # 0 /\ displayed = lastStats

\* C9: the CPU cell shows total.time.ms / uptime.ms * 100 (5.0 for 500 and
\* 10000), and 0, not NaN or infinity, when uptime.ms is 0.
C9_CpuPercentGuarded ==
  Rendered =>
    LET s == heap[lastStats]
    IN  /\ sysPanel.cpu = (IF s.UptimeMs = 0 THEN "0.0%"
                           ELSE FmtFixed(FMulNat(FDivNat(FromNat(s.TotalMs), s.UptimeMs),
                                                 100), 1) \o "%")
        /\ (s.TotalMs = 500 /\ s.UptimeMs = 10000) => sysPanel.cpu = "5.0%"
        /\ sysPanel.cpu \notin {"NaN%", "+Inf%"}

\* the int that line 493 computes for filled and max events: the float64
\* quotient converted as FTrunc does
BarsOf(filled, maxEvents) ==
  IF maxEvents = 0 THEN IntOf(0)
  ELSE FTrunc(FDivNat(FMulNat(FDivNat(FromU64(filled), maxEvents), 100), 5))

\* the int x is at least the natural n
AtLeast(x, n) == ~x.neg /\ BLeq(BFromNat(n), x.mag)

\* the uint64 a is below 2^53: float64 holds it exactly
Exact(a) == BBits(BStrip(a)) <= MantBits

\* C10 as stated, for a render pass that ran to its end: floor(percent / 5)
\* blocks, none when max_events is 0, never a negative count, and more than
\* 20 blocks whenever filled > max.
C10_OverfullBarExceedsTwenty ==
  (Rendered /\ uipc # "panicked") =>
    LET s == heap[lastStats]
        f == s.Filled
        m == s.MaxEvents
    IN  /\ ~queueView.blocks.neg
        /\ m = 0 => queueView.blocks = IntOf(0)
        /\ ~BLeq(f, BFromNat(m)) => AtLeast(queueView.blocks, 21)

\* C10 as amended.  The number of blocks is int(percent / 5), with percent =
\* float64(filled) / float64(max_events) * 100, and percent = 0 when
\* max_events is 0; a negative int is replaced by 0.  A bar whose bytes
\* (3 per block) do not fit an int, or are more than the process can get,
\* is not built: the pass ends in updateQueue with the view cleared, and
\* the program with it; a bar of up to 1 GiB is built.  In a pass that ran
\* to its end the view has that number of blocks, which is never negative
\* and which nothing bounds from above but memory; for max_events > 0 and
\* filled below 2^53, filled > max_events gives at least 20 blocks and
\* 20 * filled >= 21 * max_events (105%) more than 20; for max_events > 0
\* and 20 * filled >= 2^64 * max_events the quotient is beyond int64, the
\* conversion of the amd64 build gives the least int64 and the bar is empty.
C10_QueueBar ==
  Rendered =>
    LET s == heap[lastStats]
        f == s.Filled
        m == s.MaxEvents
        bars == BarsOf(f, m)
        count == IF bars.neg THEN IntOf(0) ELSE bars
        bytes == BMul(count.mag, 3)
    IN  /\ BBits(bytes) > 63 => uipc = "panicked"
        /\ ~BLeq(bytes, MostMemory) => uipc = "panicked"
        /\ BLeq(bytes, LeastMemory) => uipc # "panicked"
        /\ uipc = "panicked" =>
             /\ queueView.text = ""
             /\ harvesterView = "Active: 0 | Open Files: 0"
             /\ pc = "waitDone" /\ ~done
        /\ uipc # "panicked" =>
             /\ queueView.blocks = count
             /\ ~queueView.blocks.neg
             /\ m = 0 => queueView.blocks = IntOf(0)
             /\ (m > 0 /\ Exact(f) /\ ~BLeq(f, BFromNat(m)))
                  => AtLeast(queueView.blocks, 20)
             /\ (m > 0 /\ Exact(f) /\ BLeq(BMul(BFromNat(m), 21), BMul(f, 20)))
                  => AtLeast(queueView.blocks, 21)
             /\ (m > 0 /\ BLeq(BMul(BShiftLeft(<<1>>, 64), m), BMul(f, 20)))
                  => (bars = MinInt64 /\ queueView.blocks = IntOf(0))
             /\ (f = BFromNat(50) /\ m = 1000) => queueView.blocks = IntOf(1)

\* a rendered queue over its capacity with a bar of more than 20 blocks
C10_Witness ==
  /\ Rendered
  /\ uipc = "idle"
  /\ heap[lastStats].Filled = BFromNat(23)
  /\ heap[lastStats].MaxEvents = 20
  /\ queueView.blocks = IntOf(22)

\* a rendered queue whose quotient is beyond int64: the bar is empty
C10_WitnessOverflow ==
  /\ Rendered
  /\ uipc = "idle"
  /\ heap[lastStats].Filled = TenTo19
  /\ heap[lastStats].MaxEvents = 1
  /\ queueView.blocks = IntOf(0)

\* a render pass ended by a bar that cannot be built
C10_WitnessPanic ==
  /\ Rendered
  /\ uipc = "panicked"
  /\ heap[lastStats].Filled = BShiftLeft(<<1>>, 62)
  /\ heap[lastStats].MaxEvents = 24
====
